---- MODULE Spec2Model ----
(***************************************************************************)
(* Support rotation bot: the rotation engine of src/src/rotation.js        *)
(* (getNextEngineers, updateRotation, skipUser, shuffleArray) and the      *)
(* select-and-commit cycle of src/src/index.js.                            *)
(*                                                                         *)
(* JavaScript arrays are modelled as sequences; the code's 0-based indexes *)
(* are kept and translated by At.  The persisted aggregate is the record   *)
(* rotationData, mutated in place by the code and threaded through the     *)
(* operators here.                                                         *)
(***************************************************************************)
EXTENDS Integers, Sequences, FiniteSets, TLC

VARIABLES
  rotationData,        \* the RotationState aggregate (storage.js default shape)
  availableEngineers,  \* the roster main() passes to getNextEngineers
  count,               \* CONFIG.engineersPerShift, the count it passes
  selected,            \* value returned by the most recent getNextEngineers call
  op,                  \* name of the most recent operation
  entry,               \* rotationData on entry to the most recent operation
  now,                 \* the instant new Date() last returned
  args,                \* the other arguments of the most recent operation
  answer,              \* value returned by the most recent isNonWorkingDay call
  attempts,            \* getNextEngineers calls of the force_reassign under way
  stored,              \* the content of data/rotation.json
  writes               \* writeFileSync calls of the invocation under way

vars ==
  <<rotationData, availableEngineers, count, selected, op, entry, now,
    args, answer, attempts,
    stored, writes>>

(***************************************************************************)
(* Bounds of the model.                                                    *)
(***************************************************************************)
EngineerOrder == <<"A", "B", "C", "D">>
Engineers == {EngineerOrder[i] : i \in 1..Len(EngineerOrder)}

MaxCount == 2       \* largest count (engineersPerShift) tried
MaxSkip == 2        \* largest skipList SelSpec draws
MaxCurrent == 1     \* longest currentEngineers SelSpec draws
MaxCommits == 2     \* updateRotation calls per behaviour of Spec
MaxSkipped == 1     \* skipUser additions per behaviour of Spec
MaxFairNow == 2     \* value at which the clock of FairSpec saturates
MaxSelCommits == 1    \* updateRotation calls per behaviour of CommitSpec
MaxEditCommits == 1   \* commit of OpsSpec after which nonWorkingDays is left alone
MaxHistCommits == 32  \* updateRotation calls per behaviour of HistSpec

(***************************************************************************)
(* Array helpers.                                                          *)
(***************************************************************************)
Range(s) == {s[i] : i \in 1..Len(s)}

\* array[i] with the code's 0-based index
At(s, i) == s[i + 1]

\* Array.prototype.includes
Includes(s, x) == x \in Range(s)

\* Array.prototype.indexOf: first 0-based position, -1 when absent
IndexOf(s, x) ==
  IF Includes(s, x)
    THEN CHOOSE i \in 0..(Len(s) - 1) :
           /\ At(s, i) = x
           /\ \A j \in 0..(i - 1) : At(s, j) # x
    ELSE 0 - 1

Min(a, b) == IF a < b THEN a ELSE b

\* Array.prototype.slice(0, n) for n >= 0
SliceFront(s, n) == SubSeq(s, 1, Min(n, Len(s)))

\* (variant: slice(0, n), the oldest n elements are kept)
SliceOldest(s, n) == IF Len(s) <= n THEN s ELSE SubSeq(s, 1, n)

\* Array.prototype.slice(-n) for n > 0
SliceLast(s, n) == IF Len(s) <= n THEN s ELSE SubSeq(s, Len(s) - n + 1, Len(s))

NoDuplicates(s) == \A i, j \in 1..Len(s) : s[i] = s[j] => i = j

\* the arrays of distinct engineer ids of length at most n
Rosters(n) ==
  {s \in UNION {[1..k -> Engineers] : k \in 0..n} : NoDuplicates(s)}

\* lastRotationDate is null or a timestamp
Null == <<>>
Stamp(t) == <<t>>

(***************************************************************************)
(* shuffleArray (Fisher-Yates).  rnd[i] is the value of                    *)
(* Math.floor(Math.random() * (i + 1)) drawn in iteration i.               *)
(***************************************************************************)
RandomDraws(n) ==
  {rnd \in [1..(n - 1) -> 0..(n - 1)] : \A i \in 1..(n - 1) : rnd[i] <= i}

Swap(array, i, j) ==
  [k \in 1..Len(array) |->
     IF k = i + 1 THEN At(array, j)
     ELSE IF k = j + 1 THEN At(array, i)
     ELSE array[k]]

RECURSIVE ShuffleLoop(_, _, _)
ShuffleLoop(array, rnd, i) ==
  IF i > 0 THEN ShuffleLoop(Swap(array, i, rnd[i]), rnd, i - 1) ELSE array

shuffleArray(array, rnd) == ShuffleLoop(array, rnd, Len(array) - 1)

(***************************************************************************)
(* getNextEngineers, step by step.                                         *)
(***************************************************************************)

\* (variant: shuffles on every call)
BootstrapAlways(rd, roster, rnd) ==
  [rd EXCEPT !.rotationOrder = shuffleArray(roster, rnd)]

\* Initialize rotation order if it doesn't exist
Bootstrap(rd, roster, rnd) ==
  IF Len(rd.rotationOrder) = 0
    THEN [rd EXCEPT !.rotationOrder = shuffleArray(roster, rnd)]
    ELSE rd

\* (variant: the filter forgets availableEngineers.includes(id))
EligibleIgnoringRoster(rd, roster) ==
  SelectSeq(rd.rotationOrder, LAMBDA id : ~Includes(rd.skipList, id))

\* rotationOrder.filter(id => !skipList.includes(id) && availableEngineers.includes(id))
EligibleEngineers(rd, roster) ==
  SelectSeq(rd.rotationOrder,
            LAMBDA id : ~Includes(rd.skipList, id) /\ Includes(roster, id))

\* Start from after the last engineer in the current rotation
StartIndex(rd, eligibleEngineers) ==
  IF Len(rd.currentEngineers) > 0
    THEN LET lastEngineer == At(rd.currentEngineers, Len(rd.currentEngineers) - 1)
             lastIndex == IndexOf(eligibleEngineers, lastEngineer)
         IN  IF lastIndex # 0 - 1
               THEN (lastIndex + 1) % Len(eligibleEngineers)
               ELSE 0
    ELSE 0

\* the for loop that selects the required number of engineers
RECURSIVE SelectLoop(_, _, _, _, _)
SelectLoop(eligibleEngineers, cnt, i, index, selectedEngineers) ==
  IF i < cnt /\ i < Len(eligibleEngineers)
    THEN LET pushed == Append(selectedEngineers, At(eligibleEngineers, index))
             next == (index + 1) % Len(eligibleEngineers)
         IN  IF next = 0 /\ i < cnt - 1 /\ i < Len(eligibleEngineers) - 1
               THEN pushed
               ELSE SelectLoop(eligibleEngineers, cnt, i + 1, next, pushed)
    ELSE selectedEngineers

\* (variant: remainingEngineers is not filtered by selectedEngineers)
BackfillUnfiltered(selectedEngineers, roster, cnt) ==
  IF Len(selectedEngineers) < cnt
    THEN selectedEngineers \o SliceFront(roster, cnt - Len(selectedEngineers))
    ELSE selectedEngineers

\* (variant: the while loop stops at i < remainingEngineers.length - 1)
BackfillOffByOne(selectedEngineers, roster, cnt) ==
  IF Len(selectedEngineers) < cnt
    THEN LET remainingEngineers ==
               SelectSeq(roster, LAMBDA id : ~Includes(selectedEngineers, id))
         IN  selectedEngineers \o
               SliceFront(remainingEngineers,
                          Min(cnt - Len(selectedEngineers),
                              Len(remainingEngineers) - 1))
    ELSE selectedEngineers

\* If we still don't have enough engineers, add more from the available pool
Backfill(selectedEngineers, roster, cnt) ==
  IF Len(selectedEngineers) < cnt
    THEN LET remainingEngineers ==
               SelectSeq(roster, LAMBDA id : ~Includes(selectedEngineers, id))
         IN  selectedEngineers \o
               SliceFront(remainingEngineers, cnt - Len(selectedEngineers))
    ELSE selectedEngineers

\* (variant: the short path resets the skip list, as an earlier revision did)
getNextEngineersResetSkip(rd0, roster, cnt, rnd) ==
  LET rd == Bootstrap(rd0, roster, rnd)
      eligibleEngineers == EligibleEngineers(rd, roster)
  IN  IF Len(eligibleEngineers) = 0
        THEN [rotationData |-> rd, selected |-> SliceFront(roster, cnt)]
      ELSE IF Len(eligibleEngineers) < cnt
        THEN [rotationData |-> [rd EXCEPT !.skipList = <<>>],
              selected |-> eligibleEngineers]
      ELSE [rotationData |-> rd,
            selected |->
              Backfill(SelectLoop(eligibleEngineers, cnt, 0,
                                  StartIndex(rd, eligibleEngineers), <<>>),
                       roster, cnt)]

\* (variant: no starvation guard, an empty eligible list is returned as it is)
getNextEngineersNoGuard(rd0, roster, cnt, rnd) ==
  LET rd == Bootstrap(rd0, roster, rnd)
      eligibleEngineers == EligibleEngineers(rd, roster)
  IN  IF Len(eligibleEngineers) < cnt
        THEN [rotationData |-> rd, selected |-> eligibleEngineers]
      ELSE [rotationData |-> rd,
            selected |->
              Backfill(SelectLoop(eligibleEngineers, cnt, 0,
                                  StartIndex(rd, eligibleEngineers), <<>>),
                       roster, cnt)]

\* (variant: the short path is padded from the roster up to count)
getNextEngineersPadded(rd0, roster, cnt, rnd) ==
  LET rd == Bootstrap(rd0, roster, rnd)
      eligibleEngineers == EligibleEngineers(rd, roster)
  IN  IF Len(eligibleEngineers) = 0
        THEN [rotationData |-> rd, selected |-> SliceFront(roster, cnt)]
      ELSE IF Len(eligibleEngineers) < cnt
        THEN [rotationData |-> rd,
              selected |-> Backfill(eligibleEngineers, roster, cnt)]
      ELSE [rotationData |-> rd,
            selected |->
              Backfill(SelectLoop(eligibleEngineers, cnt, 0,
                                  StartIndex(rd, eligibleEngineers), <<>>),
                       roster, cnt)]

\* the value returned and the rotationData left behind
getNextEngineers(rd0, roster, cnt, rnd) ==
  LET rd == Bootstrap(rd0, roster, rnd)
      eligibleEngineers == EligibleEngineers(rd, roster)
  IN  IF Len(eligibleEngineers) = 0
        THEN [rotationData |-> rd, selected |-> SliceFront(roster, cnt)]
      ELSE IF Len(eligibleEngineers) < cnt
        THEN [rotationData |-> rd, selected |-> eligibleEngineers]
      ELSE [rotationData |-> rd,
            selected |->
              Backfill(SelectLoop(eligibleEngineers, cnt, 0,
                                  StartIndex(rd, eligibleEngineers), <<>>),
                       roster, cnt)]

(***************************************************************************)
(* updateRotation and skipUser.                                            *)
(***************************************************************************)
HistoryLimit == 30

\* (variant: the skip list is emptied by every commit)
ClearEverybody(skipList, newEngineers) == <<>>

\* (variant: the skip list is left as it was)
ClearNobody(skipList, newEngineers) == skipList

\* Clear skip list for engineers who've served
ClearServed(skipList, newEngineers) ==
  SelectSeq(skipList, LAMBDA id : ~Includes(newEngineers, id))

\* (variant: the engineers who serve are moved to the end of rotationOrder)
updateRotationRequeue(rd, newEngineers, date) ==
  LET pushed == Append(rd.history, [date |-> date, engineers |-> newEngineers])
  IN  [rd EXCEPT
         !.lastRotationDate = date,
         !.currentEngineers = newEngineers,
         !.rotationOrder =
            SelectSeq(@, LAMBDA id : ~Includes(newEngineers, id))
              \o SelectSeq(@, LAMBDA id : Includes(newEngineers, id)),
         !.history = IF Len(pushed) > HistoryLimit
                       THEN SliceLast(pushed, HistoryLimit)
                       ELSE pushed,
         !.skipList = ClearServed(rd.skipList, newEngineers)]

\* date is new Date().toISOString()
updateRotation(rd, newEngineers, date) ==
  LET pushed == Append(rd.history, [date |-> date, engineers |-> newEngineers])
  IN  [rd EXCEPT
         !.lastRotationDate = date,
         !.currentEngineers = newEngineers,
         !.history = IF Len(pushed) > HistoryLimit
                       THEN SliceLast(pushed, HistoryLimit)
                       ELSE pushed,
         !.skipList = ClearServed(rd.skipList, newEngineers)]

\* (variant: the id is pushed without looking for it in the list)
skipUserAgain(rd, userId) ==
  [rd EXCEPT !.skipList = Append(rd.skipList, userId)]

skipUser(rd, userId) ==
  IF ~Includes(rd.skipList, userId)
    THEN [rd EXCEPT !.skipList = Append(rd.skipList, userId)]
    ELSE rd

\* data/rotation.json: not there (existsSync is false), or holding data
NoFile == <<>>

File(data) == <<data>>

\* the all-empty default of loadRotationData
DefaultData ==
  [rotationOrder |-> <<>>,
   currentEngineers |-> <<>>,
   skipList |-> <<>>,
   history |-> <<>>,
   lastRotationDate |-> Null,
   nonWorkingDays |-> <<>>]

(***************************************************************************)
(* Non-working days (src/src/nonWorkingDays.js).                           *)
(*                                                                         *)
(* A Date is an instant read in the zone of the process: day is its local  *)
(* calendar day, counted from Monday 2024-01-01, and utcShift is the       *)
(* difference between its UTC calendar day and its local one (fixed by the *)
(* zone offset and the time of day).  getDay reads the local day,          *)
(* toISOString the UTC one.                                                *)
(***************************************************************************)
MaxDay == 7         \* last local day of the dates tried
MaxDates == 2       \* longest list of dates DaySpec draws
MaxRecurring == 1   \* longest list of recurring days DaySpec draws

\* the calendar around day 0; Calendar[d + 2] is the ISO date of day d
Calendar ==
  <<"2023-12-31", "2024-01-01", "2024-01-02", "2024-01-03", "2024-01-04",
    "2024-01-05", "2024-01-06", "2024-01-07", "2024-01-08", "2024-01-09",
    "2024-01-10", "2024-01-11", "2024-01-12", "2024-01-13">>

Dates == [day : 0..MaxDay, utcShift : {0 - 1, 0, 1}]

\* Date.prototype.getDay: 0 is Sunday (day 0 is a Monday)
getDay(date) == (date.day + 1) % 7

\* date.toISOString().split('T')[0]
formatDate(date) == Calendar[date.day + date.utcShift + 2]

DayNames ==
  <<"sunday", "monday", "tuesday", "wednesday", "thursday", "friday", "saturday">>

getDayOfWeek(date) == At(DayNames, getDay(date))

\* the strings of the model in the order of their UTF-16 code units, which
\* is the order Array.prototype.sort() puts them in
LexOrder ==
  Calendar \o
  <<"2024-1-5", "FRI", "Friday", "bogus", "constructor", "fri", "friday",
    "mon", "monday",
    "sat", "saturday", "sun", "sunday", "thu", "thur", "thurs", "thursday",
    "tue", "tues", "tuesday", "wed", "wednesday">>

\* String.prototype.toLowerCase on the strings of the model
ToLowerCase(str) ==
  IF str = "FRI" THEN "fri"
  ELSE IF str = "Friday" THEN "friday"
  ELSE str

\* /^\d{4}-\d{2}-\d{2}$/.test(str) on the strings of the model
isDateFormat(str) == Includes(Calendar, str)

dayMap ==
  [k \in {"sunday", "sun", "monday", "mon", "tuesday", "tue", "tues",
          "wednesday", "wed", "thursday", "thu", "thur", "thurs", "friday",
          "fri", "saturday", "sat"} |->
     CASE k \in {"sunday", "sun"} -> "sunday"
       [] k \in {"monday", "mon"} -> "monday"
       [] k \in {"tuesday", "tue", "tues"} -> "tuesday"
       [] k \in {"wednesday", "wed"} -> "wednesday"
       [] k \in {"thursday", "thu", "thur", "thurs"} -> "thursday"
       [] k \in {"friday", "fri"} -> "friday"
       [] k \in {"saturday", "sat"} -> "saturday"]

\* the null normalizeDay returns for a name it does not know
NoDay == ""

\* the function Object, as a value of the lists
ObjectFunction == "function Object() { [native code] }"

\* what dayMap inherits: it is an object literal, so a key it does not own
\* is looked up in Object.prototype.  Of the keys found there only
\* "constructor" and "__proto__" are lower-case; "constructor" is the one
\* among the strings of the model, and its value is a function, which is
\* truthy
ObjectPrototype == [k \in {"constructor"} |-> ObjectFunction]

\* dayMap[lowercaseDay] || null
normalizeDay(day) ==
  LET lowercaseDay == ToLowerCase(day)
  IN  IF lowercaseDay \in DOMAIN dayMap THEN dayMap[lowercaseDay]
      ELSE IF lowercaseDay \in DOMAIN ObjectPrototype
        THEN ObjectPrototype[lowercaseDay]
      ELSE NoDay

\* array.sort() of elements that all are in order, which lists each once:
\* the elements of rank r, then those of the ranks after it; the sort is
\* stable
RECURSIVE SortFrom(_, _, _, _)
SortFrom(array, order, r, last) ==
  IF r > last
    THEN <<>>
    ELSE SelectSeq(array, LAMBDA x : x = At(order, r))
           \o SortFrom(array, order, r + 1, last)

SortBy(array, order) == SortFrom(array, order, 0, Len(order) - 1)

\* the arrangements of the elements of array
Perms(array) ==
  {[i \in 1..Len(array) |-> array[f[i]]] :
     f \in {g \in [1..Len(array) -> 1..Len(array)] :
              \A i, j \in 1..Len(array) : g[i] = g[j] => i = j}}

\* array.sort(sortDaysOfWeek), as the set of arrays it may leave.  For a and
\* b among the seven names order[a] - order[b] orders them; for any other
\* value order[...] is undefined and the difference NaN, which sort reads
\* as +0.  Then the value equals every name, and with two different names in
\* the array the comparator is not a consistent one: the order sort leaves
\* is implementation-defined.  Otherwise the sort is the stable one.
SortDaysOfWeek(array) ==
  LET names == Range(array) \cap Range(DayNames)
  IN  IF Range(array) \subseteq Range(DayNames)
        THEN {SortBy(array, DayNames)}
      ELSE IF Cardinality(names) <= 1
        THEN {array}
      ELSE Perms(array)

\* an entry of nonWorkingDays: the flat array of dates of the older
\* revision, or the object with the two lists
LegacyEntry(items) == [shape |-> "array", items |-> items]

StructuredEntry(specificDates, recurringDays) ==
  [shape |-> "object", specificDates |-> specificDates,
   recurringDays |-> recurringDays]

\* rotationData.nonWorkingDays && rotationData.nonWorkingDays[userId]: a
\* missing object and an empty one are both the empty map
HasEntry(rd, userId) == userId \in DOMAIN rd.nonWorkingDays

PutEntry(rd, userId, e) ==
  [rd EXCEPT !.nonWorkingDays =
     [u \in DOMAIN @ \cup {userId} |-> IF u = userId THEN e ELSE @[u]]]

\* delete rotationData.nonWorkingDays[userId]
DeleteEntry(rd, userId) ==
  [rd EXCEPT !.nonWorkingDays = [u \in DOMAIN @ \ {userId} |-> @[u]]]

\* Ensure the new structure if coming from older version
Migrate(e) ==
  IF e.shape = "array" THEN StructuredEntry(e.items, <<>>) ELSE e

\* the body of the loop of addNonWorkingDays
AddDay(e, day) ==
  IF isDateFormat(day)
    THEN IF ~Includes(e.specificDates, day)
           THEN [e EXCEPT !.specificDates = Append(@, day)]
           ELSE e
    ELSE LET normalizedDay == normalizeDay(day)
         IN  IF normalizedDay # NoDay /\ ~Includes(e.recurringDays, normalizedDay)
               THEN [e EXCEPT !.recurringDays = Append(@, normalizedDay)]
               ELSE e

RECURSIVE AddDays(_, _)
AddDays(e, days) ==
  IF days = <<>> THEN e ELSE AddDays(AddDay(e, Head(days)), Tail(days))

\* the states the call may leave rotationData in: one, unless the sort of
\* recurringDays is left to the implementation
addNonWorkingDays(rd, userId, days) ==
  LET initial == IF HasEntry(rd, userId)
                   THEN rd.nonWorkingDays[userId]
                   ELSE StructuredEntry(<<>>, <<>>)
      added == AddDays(Migrate(initial), days)
  IN  {PutEntry(rd, userId,
                [added EXCEPT !.specificDates = SortBy(@, LexOrder),
                              !.recurringDays = sorted]) :
         sorted \in SortDaysOfWeek(added.recurringDays)}

\* the body of the loop of removeNonWorkingDays
RemoveDay(e, day) ==
  IF isDateFormat(day)
    THEN [e EXCEPT !.specificDates = SelectSeq(@, LAMBDA d : d # day)]
    ELSE LET normalizedDay == normalizeDay(day)
         IN  IF normalizedDay # NoDay
               THEN [e EXCEPT !.recurringDays =
                                SelectSeq(@, LAMBDA d : d # normalizedDay)]
               ELSE e

RECURSIVE RemoveDays(_, _)
RemoveDays(e, days) ==
  IF days = <<>> THEN e ELSE RemoveDays(RemoveDay(e, Head(days)), Tail(days))

removeNonWorkingDays(rd, userId, days) ==
  IF ~HasEntry(rd, userId)
    THEN rd
    ELSE PutEntry(rd, userId,
                  RemoveDays(Migrate(rd.nonWorkingDays[userId]), days))

\* type is "" when the argument is absent (null)
clearNonWorkingDays(rd, userId, type) ==
  IF ~HasEntry(rd, userId) THEN rd
  ELSE IF type = "" THEN DeleteEntry(rd, userId)
  ELSE LET e == rd.nonWorkingDays[userId]
       IN  IF type = "specific" /\ e.shape = "object"
             THEN PutEntry(rd, userId, [e EXCEPT !.specificDates = <<>>])
           ELSE IF type = "recurring" /\ e.shape = "object"
             THEN PutEntry(rd, userId, [e EXCEPT !.recurringDays = <<>>])
           ELSE rd

\* (variant: the weekend is looked at only after the user's entry)
isNonWorkingDayEntryFirst(rd, userId, date) ==
  IF ~HasEntry(rd, userId) THEN FALSE
  ELSE IF getDay(date) = 0 \/ getDay(date) = 6 THEN TRUE
  ELSE LET e == rd.nonWorkingDays[userId]
           formattedDate == formatDate(date)
       IN  IF e.shape = "object"
             THEN \/ Includes(e.specificDates, formattedDate)
                  \/ Includes(e.recurringDays, ToLowerCase(getDayOfWeek(date)))
             ELSE Includes(e.items, formattedDate)

\* (variant: only the dates are looked at, as in the older revision)
isNonWorkingDayDatesOnly(rd, userId, date) ==
  IF getDay(date) = 0 \/ getDay(date) = 6 THEN TRUE
  ELSE IF ~HasEntry(rd, userId) THEN FALSE
  ELSE LET e == rd.nonWorkingDays[userId]
           formattedDate == formatDate(date)
       IN  IF e.shape = "object"
             THEN Includes(e.specificDates, formattedDate)
             ELSE Includes(e.items, formattedDate)

\* (variant: a flat array of the older revision is not looked at)
isNonWorkingDayObjectOnly(rd, userId, date) ==
  IF getDay(date) = 0 \/ getDay(date) = 6 THEN TRUE
  ELSE IF ~HasEntry(rd, userId) THEN FALSE
  ELSE LET e == rd.nonWorkingDays[userId]
           formattedDate == formatDate(date)
       IN  IF e.shape = "object"
             THEN \/ Includes(e.specificDates, formattedDate)
                  \/ Includes(e.recurringDays, ToLowerCase(getDayOfWeek(date)))
             ELSE FALSE

isNonWorkingDay(rd, userId, date) ==
  IF getDay(date) = 0 \/ getDay(date) = 6 THEN TRUE
  ELSE IF ~HasEntry(rd, userId) THEN FALSE
  ELSE LET e == rd.nonWorkingDays[userId]
           formattedDate == formatDate(date)
       IN  IF e.shape = "object"
             THEN \/ Includes(e.specificDates, formattedDate)
                  \/ Includes(e.recurringDays, ToLowerCase(getDayOfWeek(date)))
             ELSE Includes(e.items, formattedDate)

\* a Date with its time of day: time orders the instants of one local day
MaxTime == 1        \* last time of day of the instants tried

Instants == [day : 0..MaxDay, utcShift : {0 - 1, 0, 1}, time : 0..MaxTime]

\* currentDate <= endDate: the instants are compared, time of day included
NotAfter(currentDate, endDate) ==
  \/ currentDate.day < endDate.day
  \/ currentDate.day = endDate.day /\ currentDate.time <= endDate.time

\* the dates array: setDate(getDate() + 1) keeps the local time of day
RECURSIVE DatesFrom(_, _)
DatesFrom(currentDate, endDate) ==
  IF NotAfter(currentDate, endDate)
    THEN <<currentDate>>
           \o DatesFrom([currentDate EXCEPT !.day = @ + 1], endDate)
    ELSE <<>>

\* (variant: startDate is checked before the bound is looked at)
getAvailableEngineersDoWhile(rd, allEngineers, startDate, endDate) ==
  LET dates == <<startDate>>
                 \o DatesFrom([startDate EXCEPT !.day = @ + 1], endDate)
  IN  SelectSeq(allEngineers,
                LAMBDA engineerId :
                  \A i \in 1..Len(dates) :
                    ~isNonWorkingDay(rd, engineerId, dates[i]))

getAvailableEngineers(rd, allEngineers, startDate, endDate) ==
  LET dates == DatesFrom(startDate, endDate)
  IN  SelectSeq(allEngineers,
                LAMBDA engineerId :
                  \A i \in 1..Len(dates) :
                    ~isNonWorkingDay(rd, engineerId, dates[i]))

(***************************************************************************)
(* The operations as steps.  count is CONFIG.engineersPerShift, fixed for  *)
(* a behaviour; availableEngineers is the roster main() computed for the   *)
(* call.                                                                   *)
(***************************************************************************)

\* what Math.random may return during the call: it is read only when the
\* bootstrap shuffles, so one draw stands for all of them otherwise
DrawsOfCall(rd, roster) ==
  IF Len(rd.rotationOrder) = 0
    THEN RandomDraws(Len(roster))
    ELSE {[i \in 1..(Len(roster) - 1) |-> i]}

\* getNextEngineers(rotationData, roster, count)
CallGetNextEngineers(roster) ==
  \E rnd \in DrawsOfCall(rotationData, roster) :
    LET r == getNextEngineers(rotationData, roster, count, rnd)
    IN  /\ rotationData' = r.rotationData
        /\ selected' = r.selected
        /\ availableEngineers' = roster
        /\ entry' = rotationData
        /\ op' = "getNextEngineers"
        /\ args' = <<>>
        /\ attempts' = 0
        /\ UNCHANGED <<stored, writes, count, now, answer>>

\* updateRotation(rotationData, nextEngineers) of index.js: the argument is
\* the value getNextEngineers has just returned
\* t is the instant new Date() reads
CallUpdateRotation(t) ==
  /\ op \in {"getNextEngineers", "forceSelected"}
  /\ now' = t
  /\ rotationData' = updateRotation(rotationData, selected, Stamp(t))
  /\ entry' = rotationData
  /\ op' = "updateRotation"
  /\ args' = <<>>
  /\ UNCHANGED <<stored, writes, availableEngineers, count, selected, answer, attempts>>

(***************************************************************************)
(* Spec: the operations from the default state, in any order, with every   *)
(* roster.                                                                 *)
(***************************************************************************)
Init ==
  /\ rotationData = DefaultData
  /\ entry = DefaultData
  /\ availableEngineers = <<>>
  /\ count \in 1..MaxCount
  /\ selected = <<>>
  /\ op = "init"
  /\ now = 0
  /\ args = <<>>
  /\ answer = FALSE
  /\ attempts = 0
  /\ stored = NoFile
  /\ writes = 0

\* the group as the roster collaborator lists it, filtered in order by status
\* and by non-working days
Group == <<"A", "B", "C">>

FilteredRosters ==
  {SelectSeq(Group, LAMBDA id : id \in S) : S \in SUBSET Range(Group)}

\* no force_reassign is under way
Idle == op \notin {"forceRetry", "forceSelected"}

\* a behaviour of Spec ends with its last commit
GetNextEngineers ==
  /\ Idle
  /\ Len(rotationData.history) < MaxCommits
  /\ \E roster \in FilteredRosters : CallGetNextEngineers(roster)

\* each commit is made by an invocation of its own, at a later instant
UpdateRotation == CallUpdateRotation(now + 1)

SkipUser ==
  \E userId \in Range(Group) :
    /\ Idle
    /\ Len(rotationData.history) < MaxCommits
    /\ Len(rotationData.skipList) < MaxSkipped
    /\ rotationData' = skipUser(rotationData, userId)
    /\ entry' = rotationData
    /\ op' = "skipUser"
    /\ args' = [userId |-> userId]
    /\ UNCHANGED <<stored, writes, availableEngineers, count, selected, now, answer, attempts>>

Next == GetNextEngineers \/ UpdateRotation \/ SkipUser

Spec == Init /\ [][Next]_vars

(***************************************************************************)
(* OpsSpec: Spec with the force_reassign action of index.js and the        *)
(* editors of nonWorkingDays.js.  An iteration of the do-while loop of     *)
(* force_reassign is one step; op is "forceRetry" while the loop goes on   *)
(* and "forceSelected" when it has ended and the commit is due.            *)
(***************************************************************************)
\* (variant: the loop gives up one attempt later)
maxAttemptsLate == 5 + 1

maxAttempts == 5

arraysHaveSameElements(arr1, arr2) ==
  /\ Len(arr1) = Len(arr2)
  /\ \A i \in 1..Len(arr2) : Includes(arr1, arr2[i])

\* (variant: the rotation order is shuffled on every attempt)
ReshuffleAlways(roster, cnt) == TRUE

\* if (availableEngineers.length > CONFIG.engineersPerShift) shuffleArray(...)
Reshuffle(roster, cnt) == Len(roster) > cnt

\* the body of the do-while loop, n being the value of attempts after it
ForceIteration(roster, n) ==
  \E rnd \in DrawsOfCall(rotationData, roster) :
    LET r == getNextEngineers(rotationData, roster, count, rnd)
    IN  \E draw \in IF Reshuffle(roster, count)
                      THEN RandomDraws(Len(r.rotationData.rotationOrder))
                      ELSE {<<>>} :
          LET rd == IF Reshuffle(roster, count)
                      THEN [r.rotationData EXCEPT
                              !.rotationOrder = shuffleArray(@, draw)]
                      ELSE r.rotationData
              stop == \/ n >= maxAttempts
                      \/ Len(roster) <= count
                      \/ ~arraysHaveSameElements(r.selected, rd.currentEngineers)
          IN  /\ rotationData' = rd
              /\ selected' = r.selected
              /\ availableEngineers' = roster
              /\ attempts' = n
              /\ op' = IF stop THEN "forceSelected" ELSE "forceRetry"
              /\ entry' = rotationData
              /\ args' = <<>>
              /\ UNCHANGED <<stored, writes, count, now, answer>>

ForceReassign ==
  /\ Idle
  /\ Len(rotationData.history) < MaxCommits
  /\ \E roster \in FilteredRosters : ForceIteration(roster, 1)

ForceRetry ==
  /\ op = "forceRetry"
  /\ ForceIteration(availableEngineers, attempts + 1)

\* The editors, called for one engineer with the days a command was given.
\* The reassignment manageAvailability.js may start after an addition is a
\* getNextEngineers call and an updateRotation call, steps of their own.
EditUsers == {"A"}

EditDays == {<<"2024-01-05", "Fri">>}

\* the scopes the commands clear: everything, or the recurring days
EditTypes == {"", "recurring"}

Edit(name, rd, userId, a) ==
  /\ Idle
  /\ Len(rotationData.history) < MaxEditCommits
  /\ rotationData' = rd
  /\ entry' = rotationData
  /\ op' = name
  /\ args' = [userId |-> userId, value |-> a]
  /\ UNCHANGED <<stored, writes, availableEngineers, count, selected, now, answer, attempts>>

AddNonWorkingDays ==
  \E userId \in EditUsers, days \in EditDays :
    \E rd \in addNonWorkingDays(rotationData, userId, days) :
      Edit("addNonWorkingDays", rd, userId, days)

RemoveNonWorkingDays ==
  \E userId \in EditUsers, days \in EditDays :
    Edit("removeNonWorkingDays", removeNonWorkingDays(rotationData, userId, days),
         userId, days)

ClearNonWorkingDays ==
  \E userId \in EditUsers, type \in EditTypes :
    Edit("clearNonWorkingDays", clearNonWorkingDays(rotationData, userId, type),
         userId, type)

OpsNext ==
  \/ Next
  \/ ForceReassign
  \/ ForceRetry
  \/ AddNonWorkingDays
  \/ RemoveNonWorkingDays
  \/ ClearNonWorkingDays

OpsSpec == Init /\ [][OpsNext]_vars

(***************************************************************************)
(* SelSpec: getNextEngineers as a function of its inputs.  Engineer ids    *)
(* are opaque, so rotationOrder is drawn from the prefixes of one order    *)
(* and skipList (only read through includes) from one order per set; the   *)
(* roster takes every order.  An empty rotationOrder has never selected    *)
(* anyone, and a non-empty currentEngineers was written by a commit.       *)
(***************************************************************************)
SkipLists ==
  {SelectSeq(EngineerOrder, LAMBDA id : id \in S) :
     S \in {T \in SUBSET Engineers : Cardinality(T) <= MaxSkip}}

SampleNonWorkingDays ==
  [u \in {"A"} |-> StructuredEntry(<<"2024-01-05">>, <<"friday">>)]

SelInit ==
  /\ \E k \in 0..Len(EngineerOrder), sk \in SkipLists, cur \in Rosters(MaxCurrent) :
       /\ k = 0 => cur = <<>>
       /\ rotationData =
            [rotationOrder |-> SubSeq(EngineerOrder, 1, k),
             currentEngineers |-> cur,
             skipList |-> sk,
             history |-> IF cur = <<>> THEN <<>>
                         ELSE <<[date |-> Stamp(0), engineers |-> cur]>>,
             lastRotationDate |-> IF cur = <<>> THEN Null ELSE Stamp(0),
             nonWorkingDays |-> SampleNonWorkingDays]
  /\ entry = rotationData
  /\ availableEngineers \in Rosters(Cardinality(Engineers))
  /\ count \in 0..MaxCount
  /\ selected = <<>>
  /\ op = "init"
  /\ now = 1
  /\ args = <<>>
  /\ answer = FALSE
  /\ attempts = 0
  /\ stored = NoFile
  /\ writes = 0

SelCall == CallGetNextEngineers(availableEngineers)

SelNext == SelCall

SelSpec == SelInit /\ [][SelNext]_vars

(***************************************************************************)
(* CommitSpec: SelSpec followed by the commit of what was returned (the    *)
(* clock of SelSpec starts at 1 and counts the commits from there).        *)
(***************************************************************************)
SelCommit ==
  /\ now <= MaxSelCommits
  /\ CallUpdateRotation(now + 1)

CommitNext == SelCall \/ SelCommit

CommitSpec == SelInit /\ [][CommitNext]_vars

(***************************************************************************)
(* FairSpec: one fixed roster, an empty skipList, and the cycle            *)
(* getNextEngineers; updateRotation repeated forever from the default      *)
(* state (the first call bootstraps rotationOrder from the roster, in      *)
(* every order).  lastRotationDate is not read by either operation; the    *)
(* clock saturates at MaxFairNow so that the cycle can go on forever in a  *)
(* finite state space.                                                     *)
(***************************************************************************)
FairInit ==
  /\ rotationData = DefaultData
  /\ entry = DefaultData
  /\ \E k \in 1..Len(EngineerOrder) : availableEngineers = SubSeq(EngineerOrder, 1, k)
  /\ count \in 1..MaxCount
  /\ selected = <<>>
  /\ op = "init"
  /\ now = 0
  /\ args = <<>>
  /\ answer = FALSE
  /\ attempts = 0
  /\ stored = NoFile
  /\ writes = 0

FairSelect ==
  /\ op # "getNextEngineers"
  /\ CallGetNextEngineers(availableEngineers)

FairCommit == CallUpdateRotation(Min(now + 1, MaxFairNow))

FairNext == FairSelect \/ FairCommit

FairSpec == FairInit /\ [][FairNext]_vars /\ WF_vars(FairNext)

(***************************************************************************)
(* SkipFairSpec: FairSpec with skipUser calls between the cycles, for any  *)
(* engineer of the roster (a roster of the group of Spec), while the clock *)
(* has not saturated.  Only the cycle is fair: nobody has to skip.         *)
(***************************************************************************)
SkipFairInit ==
  /\ FairInit
  /\ Range(availableEngineers) \subseteq Range(Group)

FairSkip ==
  /\ op \in {"updateRotation", "skipUser"}
  /\ now < MaxFairNow
  /\ \E userId \in Range(availableEngineers) :
       /\ \/ Len(rotationData.skipList) < MaxSkipped
          \/ Includes(rotationData.skipList, userId)
       /\ rotationData' = skipUser(rotationData, userId)
       /\ args' = [userId |-> userId]
  /\ entry' = rotationData
  /\ op' = "skipUser"
  /\ UNCHANGED <<stored, writes, availableEngineers, count, selected, now, answer, attempts>>

SkipFairNext == FairNext \/ FairSkip

SkipFairSpec == SkipFairInit /\ [][SkipFairNext]_vars /\ WF_vars(FairNext)

(***************************************************************************)
(* HistSpec: the same cycle with a clock that counts the commits, run for  *)
(* MaxHistCommits commits, past the limit of the history.                  *)
(***************************************************************************)
HistCommit ==
  /\ now < MaxHistCommits
  /\ CallUpdateRotation(now + 1)

HistNext == FairSelect \/ HistCommit

HistSpec == FairInit /\ [][HistNext]_vars

(***************************************************************************)
(* DaySpec: isNonWorkingDay as a function of its inputs.  nonWorkingDays   *)
(* is empty or holds an entry for engineer A: a flat array written by the  *)
(* older revision or the object addNonWorkingDays writes, with its lists   *)
(* sorted and without repeats as both revisions leave them.  The question  *)
(* is asked for A and for B, who has no entry, on every date.              *)
(***************************************************************************)
SampleDates == <<"2024-01-04", "2024-01-05", "2024-01-06">>

SampleDays == <<"monday", "friday", "saturday">>

\* the sublists of s, in the order of s, of length at most n
SubLists(s, n) ==
  {SelectSeq(s, LAMBDA x : x \in S) :
     S \in {T \in SUBSET Range(s) : Cardinality(T) <= n}}

SampleEntries ==
  {LegacyEntry(d) : d \in SubLists(SampleDates, MaxDates)}
    \cup {StructuredEntry(d, r) : d \in SubLists(SampleDates, MaxDates),
                                  r \in SubLists(SampleDays, MaxRecurring)}

DayInit ==
  /\ \/ rotationData = DefaultData
     \/ \E e \in SampleEntries : rotationData = PutEntry(DefaultData, "A", e)
  /\ entry = rotationData
  /\ availableEngineers = <<>>
  /\ count = 1
  /\ selected = <<>>
  /\ op = "init"
  /\ now = 0
  /\ args = <<>>
  /\ answer = FALSE
  /\ attempts = 0
  /\ stored = NoFile
  /\ writes = 0

IsNonWorkingDay ==
  \E userId \in {"A", "B"}, date \in Dates :
    /\ answer' = isNonWorkingDay(rotationData, userId, date)
    /\ args' = [userId |-> userId, date |-> date]
    /\ entry' = rotationData
    /\ op' = "isNonWorkingDay"
    /\ UNCHANGED <<stored, writes, rotationData, availableEngineers, count, selected, now, attempts>>

DayNext == IsNonWorkingDay

DaySpec == DayInit /\ [][DayNext]_vars

(***************************************************************************)
(* AvailSpec: getAvailableEngineers as a function of its inputs.  The      *)
(* state is one of DaySpec; the roster and the two Dates are drawn, the    *)
(* start before, on or after the day of the end, at the same time of day   *)
(* or at another.  The Dates of one call are read in one zone at one       *)
(* offset.                                                                 *)
(***************************************************************************)
AvailRosters == {<<>>, <<"A">>, <<"B">>, <<"A", "B">>, <<"B", "A">>}

AvailInit ==
  /\ \/ rotationData = DefaultData
     \/ \E e \in SampleEntries : rotationData = PutEntry(DefaultData, "A", e)
  /\ entry = rotationData
  /\ availableEngineers \in AvailRosters
  /\ \E startDate \in Instants, endDate \in Instants :
       /\ endDate.utcShift = startDate.utcShift
       /\ args = [startDate |-> startDate, endDate |-> endDate]
  /\ count = 1
  /\ selected = <<>>
  /\ op = "init"
  /\ now = 0
  /\ answer = FALSE
  /\ attempts = 0
  /\ stored = NoFile
  /\ writes = 0

GetAvailableEngineers ==
  /\ selected' = getAvailableEngineers(rotationData, availableEngineers,
                                       args.startDate, args.endDate)
  /\ entry' = rotationData
  /\ op' = "getAvailableEngineers"
  /\ UNCHANGED <<stored, writes, rotationData, availableEngineers, count, now, args, answer,
                 attempts>>

AvailNext == GetAvailableEngineers

AvailSpec == AvailInit /\ [][AvailNext]_vars

(***************************************************************************)
(* EditSpec: the three editors of nonWorkingDays.js called in any order    *)
(* from the default state, for two users, with the lists of days a DAYS    *)
(* setting may hold: dates, names of days in several spellings, and        *)
(* strings that are neither.  The lists are tried on A; B is given one     *)
(* day and taken it again.                                                 *)
(***************************************************************************)
EditorUsers == {"A", "B"}

EditorDays ==
  {<<"2024-01-05">>, <<"2024-01-04">>, <<"Fri">>, <<"sun">>, <<"bogus">>,
   <<"constructor">>, <<"2024-01-05", "friday", "bogus">>}

OtherDays == {<<"sun">>}

\* the pairs of USER_ID and DAYS tried
EditorCalls ==
  {<<"A", days>> : days \in EditorDays} \cup {<<"B", days>> : days \in OtherDays}

EditorTypes == {"", "specific", "recurring"}

EditInit ==
  /\ rotationData = DefaultData
  /\ entry = rotationData
  /\ availableEngineers = <<>>
  /\ count = 1
  /\ selected = <<>>
  /\ op = "init"
  /\ now = 0
  /\ args = <<>>
  /\ answer = FALSE
  /\ attempts = 0
  /\ stored = NoFile
  /\ writes = 0

EditAdd ==
  \E call \in EditorCalls :
    \E rd \in addNonWorkingDays(rotationData, call[1], call[2]) :
      Edit("addNonWorkingDays", rd, call[1], call[2])

EditRemove ==
  \E call \in EditorCalls :
    Edit("removeNonWorkingDays",
         removeNonWorkingDays(rotationData, call[1], call[2]),
         call[1], call[2])

EditClear ==
  \E userId \in EditorUsers, type \in EditorTypes :
    Edit("clearNonWorkingDays", clearNonWorkingDays(rotationData, userId, type),
         userId, type)

EditNext == EditAdd \/ EditRemove \/ EditClear

EditSpec == EditInit /\ [][EditNext]_vars

(***************************************************************************)
(* MigrateSpec: the editors on a state the older revision wrote, in which  *)
(* the entry of A is a flat array of dates and B has no entry or a flat    *)
(* array.                                                                  *)
(***************************************************************************)
LegacySamples ==
  {LegacyEntry(<<"2024-01-05">>), LegacyEntry(<<"2024-01-04", "2024-01-05">>)}

OtherSamples == {LegacyEntry(<<"2024-01-04">>)}

MigrateInit ==
  /\ \E a \in LegacySamples :
       \/ rotationData = PutEntry(DefaultData, "A", a)
       \/ \E b \in OtherSamples :
            rotationData = PutEntry(PutEntry(DefaultData, "A", a), "B", b)
  /\ entry = rotationData
  /\ availableEngineers = <<>>
  /\ count = 1
  /\ selected = <<>>
  /\ op = "init"
  /\ now = 0
  /\ args = <<>>
  /\ answer = FALSE
  /\ attempts = 0
  /\ stored = NoFile
  /\ writes = 0

MigrateSpec == MigrateInit /\ [][EditNext]_vars

(***************************************************************************)
(* InvokeSpec: invocations of main() of manageAvailability.js, one after   *)
(* the other, on the file the previous one left.  An invocation loads the  *)
(* file, runs the command of ACTION and saves, and after an add looks      *)
(* whether the user is on support and must be replaced.  op is the         *)
(* position of the invocation under way: "loaded" after loadRotationData,  *)
(* "saved" after the save of an add, "done" or "failed" at its end.        *)
(***************************************************************************)
MaxInvocations == 2   \* invocations in a behaviour

daysPerRotation == 2  \* CONFIG.daysPerRotation

\* the null JSON.stringify writes for a function in an array
JsonNull == "null"

\* JSON.parse(JSON.stringify(data)): the state as the next invocation reads
\* it.  Strings, arrays and objects come back as they are
Stringify(data) ==
  [data EXCEPT !.nonWorkingDays =
     [u \in DOMAIN data.nonWorkingDays |->
        LET e == data.nonWorkingDays[u]
        IN  IF e.shape = "object"
              THEN [e EXCEPT !.recurringDays =
                      [i \in 1..Len(e.recurringDays) |->
                         IF e.recurringDays[i] = ObjectFunction
                           THEN JsonNull
                           ELSE e.recurringDays[i]]]
              ELSE e]]

\* the loop that moves endDate on until daysPerRotation weekdays are counted
RECURSIVE EndDateFrom(_, _)
EndDateFrom(endDate, weekdaysCount) ==
  IF weekdaysCount >= daysPerRotation
    THEN endDate
    ELSE LET next == [endDate EXCEPT !.day = @ + 1]
         IN  EndDateFrom(next,
                         IF getDay(next) # 0 /\ getDay(next) # 6
                           THEN weekdaysCount + 1
                           ELSE weekdaysCount)

\* ACTION and DAYS; the clear commands do not read DAYS
InvokeCommands ==
  {<<action, days>> :
     action \in {"add_non_working_days", "remove_non_working_days"},
     days \in {<<>>, <<"2024-01-05">>, <<"Fri">>, <<"sun">>, <<"constructor">>}}
    \cup {<<"clear_non_working_days", <<>>>>, <<"clear_recurring_days", <<>>>>}

InvokeUsers == {"A", "C"}

\* new Date() of the invocation: a Thursday or a Friday
InvokeTodays == {d \in Instants : d.day \in {3, 4} /\ d.utcShift = 0 /\ d.time = 0}

\* the group after the status filter
InvokeRosters == {Group, <<"B", "C">>}

\* the file an assign of an earlier day left: the group in rotation order,
\* its first engineers on support
AfterAssign(cnt) ==
  [DefaultData EXCEPT
     !.rotationOrder = Group,
     !.currentEngineers = SliceFront(Group, cnt),
     !.lastRotationDate = Stamp(0),
     !.history = <<[date |-> Stamp(0), engineers |-> SliceFront(Group, cnt)]>>]

InvokeInit ==
  /\ count \in 1..MaxCount
  /\ stored \in {NoFile, File(AfterAssign(count))}
  /\ writes = 0
  /\ rotationData = DefaultData
  /\ entry = rotationData
  /\ availableEngineers = <<>>
  /\ selected = <<>>
  /\ op = "init"
  /\ now = 0
  /\ args = <<>>
  /\ answer = FALSE
  /\ attempts = 0

Running == op \in {"loaded", "saved"}

\* main() up to loadRotationData, which writes the default when the file is
\* not there
MainLoad ==
  /\ ~Running
  /\ now < MaxInvocations
  /\ \E command \in InvokeCommands, userId \in InvokeUsers,
        today \in InvokeTodays :
       args' = [action |-> command[1], userId |-> userId,
                value |-> command[2], today |-> today]
  /\ IF stored = NoFile
       THEN /\ stored' = File(Stringify(DefaultData))
            /\ writes' = 1
            /\ rotationData' = DefaultData
       ELSE /\ rotationData' = stored[1]
            /\ writes' = 0
            /\ UNCHANGED stored
  /\ entry' = rotationData'
  /\ op' = "loaded"
  /\ now' = now + 1
  /\ UNCHANGED <<availableEngineers, count, selected, answer, attempts>>

\* saveRotationData(dataPath, data), then the invocation is at position at
Save(data, at) ==
  /\ rotationData' = data
  /\ stored' = File(Stringify(data))
  /\ writes' = writes + 1
  /\ op' = at

\* the branch of ACTION with its save
MainCommand ==
  /\ op = "loaded"
  /\ LET userId == args.userId
         days == args.value
     IN  CASE args.action = "add_non_working_days" ->
                IF Len(days) = 0
                  THEN op' = "failed" /\ UNCHANGED <<rotationData, stored, writes>>
                  ELSE \E rd \in addNonWorkingDays(rotationData, userId, days) :
                         Save(rd, "saved")
           [] args.action = "remove_non_working_days" ->
                IF Len(days) = 0
                  THEN op' = "failed" /\ UNCHANGED <<rotationData, stored, writes>>
                  ELSE Save(removeNonWorkingDays(rotationData, userId, days),
                            "done")
           [] args.action = "clear_non_working_days" ->
                Save(clearNonWorkingDays(rotationData, userId, ""), "done")
           [] args.action = "clear_recurring_days" ->
                Save(clearNonWorkingDays(rotationData, userId, "recurring"),
                     "done")
  /\ UNCHANGED <<availableEngineers, count, selected, entry, now, args, answer,
                 attempts>>

\* checkAndReassignIfNeeded after an add: the roster is the one Slack
\* returns, filtered by status; postSupportAssignment may throw
MainReassign ==
  /\ op = "saved"
  /\ LET userId == args.userId
         today == args.today
         tomorrow == [today EXCEPT !.day = @ + 1]
     IN  IF /\ Includes(rotationData.currentEngineers, userId)
            /\ \/ isNonWorkingDay(rotationData, userId, today)
               \/ isNonWorkingDay(rotationData, userId, tomorrow)
           THEN \E statusFilteredEngineers \in InvokeRosters :
                  LET free == getAvailableEngineers(
                                rotationData, statusFilteredEngineers, today,
                                EndDateFrom(today, 0))
                  IN  \E rnd \in DrawsOfCall(rotationData, free) :
                        LET r == getNextEngineers(rotationData, free, count, rnd)
                        IN  /\ availableEngineers' = free
                            /\ selected' = r.selected
                            /\ \/ Save(updateRotation(r.rotationData,
                                                      r.selected, Stamp(now)),
                                        "done")
                               \/ /\ op' = "failed"
                                  /\ rotationData' = r.rotationData
                                  /\ UNCHANGED <<stored, writes>>
           ELSE /\ op' = "done"
                /\ UNCHANGED <<rotationData, stored, writes,
                               availableEngineers, selected>>
  /\ UNCHANGED <<count, entry, now, args, answer, attempts>>

InvokeNext == MainLoad \/ MainCommand \/ MainReassign

InvokeSpec == InvokeInit /\ [][InvokeNext]_vars

(***************************************************************************)
(* LateSpec: the cycle of FairSpec on a state that was bootstrapped while  *)
(* engineer C was away: rotationOrder is a shuffle of the first engineers  *)
(* of the group, and from now on the roster is the whole group.            *)
(***************************************************************************)
LateInit ==
  /\ \E k \in 1..(Len(Group) - 1) :
       \E order \in Perms(SubSeq(Group, 1, k)) :
         rotationData = [DefaultData EXCEPT !.rotationOrder = order]
  /\ entry = rotationData
  /\ availableEngineers = Group
  /\ count \in 1..MaxCount
  /\ selected = <<>>
  /\ op = "init"
  /\ now = 0
  /\ args = <<>>
  /\ answer = FALSE
  /\ attempts = 0
  /\ stored = NoFile
  /\ writes = 0

LateSpec == LateInit /\ [][FairNext]_vars /\ WF_vars(FairNext)

(***************************************************************************)
(* AssignSpec: invocations of main() of index.js, one after the other, on  *)
(* the file the previous one left.  An invocation loads the file and reads *)
(* the clock and the group ("started"), then runs the branch of ACTION and *)
(* ends: "assigned" or "reassigned" after the save, "notDue" or "weekend"  *)
(* when assign does nothing, "failed" when the announcement throws.        *)
(***************************************************************************)

\* data/rotation.json holding what JSON.parse rejects
Corrupt == <<"SyntaxError", "SyntaxError">>

IsFile(s) == Len(s) = 1

\* the loop that counts the weekdays from the day after lastRotationDate up
\* to today; the Dates are compared as instants
RECURSIVE WeekdaysUpTo(_, _)
WeekdaysUpTo(currentDate, today) ==
  IF NotAfter(currentDate, today)
    THEN (IF getDay(currentDate) # 0 /\ getDay(currentDate) # 6 THEN 1 ELSE 0)
           + WeekdaysUpTo([currentDate EXCEPT !.day = @ + 1], today)
    ELSE 0

daysSinceLastRotation(rd, today) ==
  IF rd.lastRotationDate # Null
    THEN WeekdaysUpTo([rd.lastRotationDate[1] EXCEPT !.day = @ + 1], today)
    ELSE daysPerRotation

\* (variant: a rotation is started on any day)
StartsOnWeekendNever(today) == FALSE

\* today.getDay() === 0 || today.getDay() === 6
StartsOnWeekend(today) == getDay(today) = 0 \/ getDay(today) = 6

\* (variant: the state is saved before the announcement is posted)
AnnounceAfterSave(data, memory, ok, at) ==
  IF ok THEN Save(data, at) ELSE Save(data, "failed")

\* postSupportAssignment, which throws when Slack refuses, then
\* updateRotation and saveRotationData; memory is rotationData as
\* getNextEngineers left it
Announce(data, memory, ok, at) ==
  IF ok
    THEN Save(data, at)
    ELSE /\ op' = "failed"
         /\ rotationData' = memory
         /\ UNCHANGED <<stored, writes>>

\* the do-while loop of force_reassign from its attempt n on: the states and
\* selections it may end with
RECURSIVE ForceOutcomes(_, _, _, _)
ForceOutcomes(rd, roster, cnt, n) ==
  UNION
    {LET r == getNextEngineers(rd, roster, cnt, rnd)
     IN  UNION
           {LET rd2 == IF Reshuffle(roster, cnt)
                         THEN [r.rotationData EXCEPT
                                 !.rotationOrder = shuffleArray(@, draw)]
                         ELSE r.rotationData
            IN  IF \/ n >= maxAttempts
                   \/ Len(roster) <= cnt
                   \/ ~arraysHaveSameElements(r.selected, rd2.currentEngineers)
                  THEN {[rotationData |-> rd2, selected |-> r.selected]}
                  ELSE ForceOutcomes(rd2, roster, cnt, n + 1) :
            draw \in IF Reshuffle(roster, cnt)
                       THEN RandomDraws(Len(r.rotationData.rotationOrder))
                       ELSE {<<>>}} :
     rnd \in DrawsOfCall(rd, roster)}

\* new Date() of an invocation, read in UTC
AssignTodays == {d \in Instants : d.utcShift = 0}

\* the file an assign left at the instant date
AfterAssignOn(date, cnt, days) ==
  [DefaultData EXCEPT
     !.rotationOrder = Group,
     !.currentEngineers = SliceFront(Group, cnt),
     !.lastRotationDate = Stamp(date),
     !.history = <<[date |-> Stamp(date), engineers |-> SliceFront(Group, cnt)]>>,
     !.nonWorkingDays = days]

AssignInit ==
  /\ count \in 1..MaxCount
  /\ \/ stored \in {NoFile, Corrupt}
     \/ \E date \in AssignTodays, days \in {<<>>, SampleNonWorkingDays} :
          /\ ~StartsOnWeekend(date)
          /\ stored = File(AfterAssignOn(date, count, days))
  /\ writes = 0
  /\ rotationData = DefaultData
  /\ entry = rotationData
  /\ availableEngineers = <<>>
  /\ selected = <<>>
  /\ op = "init"
  /\ now = 0
  /\ args = <<>>
  /\ answer = FALSE
  /\ attempts = 0

\* main() up to the branch on ACTION: the file is loaded, a file that
\* cannot be read or parsed as the default; the clock does not go back
IndexLoad ==
  /\ op # "started"
  /\ now < MaxInvocations
  /\ \E action \in {"assign", "force_reassign"}, today \in AssignTodays,
        roster \in InvokeRosters :
       /\ op # "init" => NotAfter(args.today, today)
       /\ (IsFile(stored) /\ stored[1].lastRotationDate # Null) =>
            NotAfter(stored[1].lastRotationDate[1], today)
       /\ args' = [action |-> action, today |-> today, roster |-> roster]
  /\ IF stored = NoFile
       THEN /\ stored' = File(Stringify(DefaultData))
            /\ writes' = 1
            /\ rotationData' = DefaultData
       ELSE /\ rotationData' = IF IsFile(stored) THEN stored[1] ELSE DefaultData
            /\ writes' = 0
            /\ UNCHANGED stored
  /\ entry' = rotationData'
  /\ op' = "started"
  /\ now' = now + 1
  /\ UNCHANGED <<availableEngineers, count, selected, answer, attempts>>

\* the rest of main(): the window, the roster filtered by non-working days,
\* and the branch of ACTION
IndexRun ==
  /\ op = "started"
  /\ LET today == args.today
         free == getAvailableEngineers(rotationData, args.roster, today,
                                       EndDateFrom(today, 0))
     IN  /\ availableEngineers' = free
         /\ IF args.action = "force_reassign"
              THEN \E r \in ForceOutcomes(rotationData, free, count, 1),
                      ok \in BOOLEAN :
                     /\ selected' = r.selected
                     /\ Announce(updateRotation(r.rotationData, r.selected,
                                                Stamp(today)),
                                 r.rotationData, ok, "reassigned")
            ELSE IF daysSinceLastRotation(rotationData, today) < daysPerRotation
              THEN /\ op' = "notDue"
                   /\ UNCHANGED <<rotationData, stored, writes, selected>>
            ELSE IF StartsOnWeekend(today)
              THEN /\ op' = "weekend"
                   /\ UNCHANGED <<rotationData, stored, writes, selected>>
            ELSE \E rnd \in DrawsOfCall(rotationData, free), ok \in BOOLEAN :
                   LET r == getNextEngineers(rotationData, free, count, rnd)
                   IN  /\ selected' = r.selected
                       /\ Announce(updateRotation(r.rotationData, r.selected,
                                                  Stamp(today)),
                                   r.rotationData, ok, "assigned")
  /\ UNCHANGED <<count, entry, now, args, answer, attempts>>

AssignNext == IndexLoad \/ IndexRun

AssignSpec == AssignInit /\ [][AssignNext]_vars

(***************************************************************************)
(* Properties.                                                             *)
(***************************************************************************)
Returned == op = "getNextEngineers"
Committed == op = "updateRotation"

\* eligible of the call that has just returned: rotationOrder (after the
\* bootstrap) restricted to the roster, minus skipList
Eligible == EligibleEngineers(rotationData, availableEngineers)

\* n consecutive elements of s from 0-based position start, wrapping
CircularTake(s, start, n) ==
  [k \in 1..n |-> At(s, (start + k - 1) % Len(s))]

\* the walk stopped at the end of eligible and the roster filled the rest
WalkCutShort ==
  /\ Returned
  /\ Len(Eligible) >= count
  /\ selected # CircularTake(Eligible, StartIndex(rotationData, Eligible), count)

\* C1: with a fixed roster (all of it in rotationOrder), an empty skipList and
\* count >= 1, repeating getNextEngineers; updateRotation forever puts every
\* engineer of the roster into currentEngineers again and again.
C1_EveryoneServesAgain ==
  \A e \in Engineers :
    []<>(Includes(availableEngineers, e) => Includes(rotationData.currentEngineers, e))

\* C2: whenever eligible is non-empty, getNextEngineers returns no engineer
\* of skipList.
C2_NoSkippedReturned ==
  (Returned /\ Len(Eligible) > 0) =>
    \A i \in 1..Len(selected) : ~Includes(rotationData.skipList, selected[i])

\* C3: when eligible has at least count elements, getNextEngineers returns
\* the count consecutive elements of eligible from the anchor position,
\* wrapping modulo the length of eligible, whatever the order of the roster.
C3_CircularWalk ==
  (Returned /\ Len(Eligible) >= count) =>
    selected = CircularTake(Eligible, StartIndex(rotationData, Eligible), count)

\* C4: getNextEngineers never returns the same engineer twice in one result
\* (roster and rotationOrder without repeated ids).
C4_NoDuplicates == Returned => NoDuplicates(selected)

C4_Witness == WalkCutShort /\ Len(selected) >= 2

\* C5: with a non-empty eligible, getNextEngineers returns exactly
\* min(count, len(eligible)) engineers.
C5_ExactSize ==
  (Returned /\ Len(Eligible) > 0) => Len(selected) = Min(count, Len(Eligible))

C5_Witness ==
  /\ WalkCutShort
  /\ count >= 2
  /\ Len(Eligible) > count

\* C6: whenever eligible is non-empty, every engineer getNextEngineers
\* returns is a member of rotationOrder.
C6_OnlyRotationMembers ==
  (Returned /\ Len(Eligible) > 0) =>
    Range(selected) \subseteq Range(rotationData.rotationOrder)

\* C7: once rotationOrder is non-empty, the value getNextEngineers returns is
\* the same for every call with the same rotationData, roster and count:
\* it does not depend on what Math.random returns.
C7_Deterministic ==
  (Returned /\ Len(entry.rotationOrder) > 0) =>
    \A rnd \in RandomDraws(Len(availableEngineers)) :
      getNextEngineers(entry, availableEngineers, count, rnd).selected = selected

C7_Witness ==
  /\ Returned
  /\ Len(entry.rotationOrder) > 0
  /\ Len(availableEngineers) >= 3
  /\ Len(selected) >= 2

\* C8: getNextEngineers leaves skipList, currentEngineers, history,
\* lastRotationDate and nonWorkingDays unchanged on every path, and
\* rotationOrder too unless it was empty on entry.
C8_OnlyBootstrapWrites ==
  Returned =>
    /\ rotationData.skipList = entry.skipList
    /\ rotationData.currentEngineers = entry.currentEngineers
    /\ rotationData.history = entry.history
    /\ rotationData.lastRotationDate = entry.lastRotationDate
    /\ rotationData.nonWorkingDays = entry.nonWorkingDays
    /\ Len(entry.rotationOrder) > 0 =>
         rotationData.rotationOrder = entry.rotationOrder

C8_Witness ==
  /\ Returned
  /\ Len(entry.rotationOrder) > 0
  /\ Len(entry.skipList) > 0
  /\ Len(entry.history) > 0
  /\ Len(Eligible) > 0
  /\ Len(Eligible) < count

\* C9: immediately after updateRotation no id is in both skipList and
\* currentEngineers.
C9_ServedNotSkipped ==
  Committed =>
    Range(rotationData.skipList) \cap Range(rotationData.currentEngineers) = {}

C9_Witness ==
  /\ Committed
  /\ Range(entry.skipList) \cap Range(rotationData.currentEngineers) # {}

\* C10: after a select-and-commit cycle currentEngineers holds only ids of
\* the roster passed to the most recent getNextEngineers call, and at most
\* count of them.
C10_CurrentWithinRoster ==
  Committed =>
    /\ Range(rotationData.currentEngineers) \subseteq Range(availableEngineers)
    /\ Len(rotationData.currentEngineers) <= count

C10_Witness ==
  /\ Committed
  /\ Len(rotationData.currentEngineers) = count
  /\ ~(Range(rotationData.rotationOrder) \subseteq Range(availableEngineers))
  /\ Len(rotationData.history) = 2

\* C16: starvation guard: when no engineer of rotationOrder is both in the
\* roster and outside skipList, getNextEngineers returns the first
\* min(count, len(roster)) engineers of the roster, in roster order.
C16_StarvationGuard ==
  (Returned /\ Len(Eligible) = 0) =>
    /\ Len(selected) = Min(count, Len(availableEngineers))
    /\ \A i \in 1..Len(selected) : selected[i] = availableEngineers[i]

C16_Witness ==
  /\ Returned
  /\ Len(Eligible) = 0
  /\ Len(entry.rotationOrder) > 0
  /\ Len(entry.skipList) > 0
  /\ Len(availableEngineers) > count
  /\ count = 2
  /\ selected # SliceFront(rotationData.rotationOrder, 2)

\* C17: when eligible is non-empty but has fewer than count elements,
\* getNextEngineers returns exactly eligible (in rotationOrder order, not
\* padded from the roster) and leaves skipList unchanged.
C17_ShortPath ==
  (Returned /\ Len(Eligible) > 0 /\ Len(Eligible) < count) =>
    /\ selected = Eligible
    /\ rotationData.skipList = entry.skipList

C17_Witness ==
  /\ Returned
  /\ Len(Eligible) = 1
  /\ count = 2
  /\ Len(entry.skipList) > 0
  /\ Len(availableEngineers) >= 3

\* C14: history grows by one entry per updateRotation call while it has
\* fewer than 30 entries and stays at 30 afterwards, the oldest entry being
\* dropped: after n commits it holds the most recent min(n, 30) assignments
\* in commit order (in HistSpec now is the number of commits so far).
C14_HistoryWindow ==
  LET history == rotationData.history
      kept == Len(history)
  IN  /\ kept = Min(now, HistoryLimit)
      /\ \A i \in 1..kept : history[i].date = Stamp(now - kept + i)
      /\ Committed =>
            /\ history[kept].engineers = selected
            /\ \A i \in 1..(kept - 1) :
                  history[i] = entry.history[Len(entry.history) + 1 - kept + i]

C14_Witness ==
  /\ Committed
  /\ Len(entry.history) = HistoryLimit
  /\ now = HistoryLimit + 2
  /\ rotationData.history[1].engineers # rotationData.history[HistoryLimit].engineers

\* C12: the skip is temporary: an engineer of the (fixed) roster who is put
\* on skipList is, under repeated getNextEngineers; updateRotation cycles,
\* eventually assigned again and taken off skipList.
C12_SkipIsTemporary ==
  \A x \in Engineers :
    Includes(rotationData.skipList, x) ~>
      (Includes(rotationData.currentEngineers, x)
         /\ ~Includes(rotationData.skipList, x))

Asked == op = "isNonWorkingDay"

\* the lists of the user's entry as the claims name them: a flat array holds
\* specific dates only, a user without an entry has neither
SpecificDatesOf(rd, userId) ==
  IF ~HasEntry(rd, userId) THEN <<>>
  ELSE IF rd.nonWorkingDays[userId].shape = "object"
    THEN rd.nonWorkingDays[userId].specificDates
  ELSE rd.nonWorkingDays[userId].items

RecurringDaysOf(rd, userId) ==
  IF HasEntry(rd, userId) /\ rd.nonWorkingDays[userId].shape = "object"
    THEN rd.nonWorkingDays[userId].recurringDays
    ELSE <<>>

\* C19: isNonWorkingDay answers true for every date that is a Saturday or a
\* Sunday, for every user and every content of nonWorkingDays (no entry, a
\* flat array, the object with the two lists).
C19_WeekendForEveryone ==
  (Asked /\ getDayOfWeek(args.date) \in {"saturday", "sunday"}) => answer

C19_Witness ==
  /\ Asked
  /\ getDayOfWeek(args.date) = "sunday"
  /\ ~HasEntry(rotationData, args.userId)
  /\ HasEntry(rotationData, "A")
  /\ answer

\* C20: for a Monday-to-Friday date isNonWorkingDay answers true exactly
\* when the ISO calendar date of the instant is in the user's specificDates
\* or the name of its weekday is in the user's recurringDays; it answers
\* false for a user without an entry.
C20_WeekdayLookup ==
  (Asked /\ getDayOfWeek(args.date) \notin {"saturday", "sunday"}) =>
    /\ answer <=>
          \/ Includes(SpecificDatesOf(rotationData, args.userId),
                      Calendar[args.date.day + args.date.utcShift + 2])
          \/ Includes(RecurringDaysOf(rotationData, args.userId),
                      getDayOfWeek(args.date))
    /\ ~HasEntry(rotationData, args.userId) => ~answer

C20_Witness ==
  /\ Asked
  /\ getDayOfWeek(args.date) = "friday"
  /\ answer
  /\ HasEntry(rotationData, args.userId)
  /\ ~Includes(SpecificDatesOf(rotationData, args.userId), "2024-01-05")

\* a and b hold the same ids, each once
SameIds(a, b) ==
  /\ Len(a) = Len(b)
  /\ \A x \in Range(a) \cup Range(b) :
       Cardinality({i \in 1..Len(a) : a[i] = x})
         = Cardinality({i \in 1..Len(b) : b[i] = x})

Forcing == op \in {"forceRetry", "forceSelected"}

\* C11: once rotationOrder is non-empty every operation (getNextEngineers,
\* updateRotation, skipUser, the non-working-day editors, assign,
\* force_reassign) leaves it a permutation of the same ids, and its order
\* changes only in force_reassign with more than engineersPerShift engineers
\* available.
C11_RotationOrderKept ==
  (op # "init" /\ Len(entry.rotationOrder) > 0) =>
    /\ SameIds(rotationData.rotationOrder, entry.rotationOrder)
    /\ rotationData.rotationOrder # entry.rotationOrder =>
         (Forcing /\ Len(availableEngineers) > count)

C11_Witness ==
  /\ Forcing
  /\ attempts >= 2
  /\ Len(entry.rotationOrder) = 3
  /\ rotationData.rotationOrder # entry.rotationOrder
  /\ Len(rotationData.skipList) > 0
  /\ HasEntry(rotationData, "A")

\* C13: an id leaves skipList only in an updateRotation call whose
\* newEngineers contains it; getNextEngineers, skipUser, force_reassign's
\* selection and the non-working-day editors remove nothing from skipList.
C13_SkipLeavesOnlyWhenServed ==
  op # "init" =>
    \A id \in Range(entry.skipList) \ Range(rotationData.skipList) :
      Committed /\ Includes(selected, id)

C13_Witness ==
  /\ Committed
  /\ Len(entry.skipList) > Len(rotationData.skipList)
  /\ HasEntry(rotationData, "A")
  /\ Len(availableEngineers) >= 2

\* C15: updateRotation changes only lastRotationDate, currentEngineers,
\* history and skipList: rotationOrder and nonWorkingDays are as before, and
\* skipList is the previous skipList without the ids of newEngineers, in the
\* same order.
C15_UpdateRotationFrame ==
  Committed =>
    /\ rotationData.rotationOrder = entry.rotationOrder
    /\ rotationData.nonWorkingDays = entry.nonWorkingDays
    /\ DOMAIN rotationData = DOMAIN entry
    /\ Range(rotationData.skipList) = Range(entry.skipList) \ Range(selected)
    /\ \A i, j \in 1..Len(rotationData.skipList) :
         i < j => IndexOf(entry.skipList, rotationData.skipList[i])
                    < IndexOf(entry.skipList, rotationData.skipList[j])

C15_Witness ==
  /\ Committed
  /\ Len(entry.skipList) = 2
  /\ Len(rotationData.skipList) = 1
  /\ Len(selected) = 2
  /\ Len(rotationData.rotationOrder) >= 3
  /\ HasEntry(rotationData, "A")

\* C18: skipUser adds userId to skipList when it is absent and changes
\* nothing when it is present: a second call changes nothing, skipList never
\* holds an id twice, and no other field changes.
C18_SkipUserIdempotent ==
  op = "skipUser" =>
    /\ ~Includes(entry.skipList, args.userId) =>
         rotationData.skipList = Append(entry.skipList, args.userId)
    /\ Includes(entry.skipList, args.userId) => rotationData = entry
    /\ skipUser(rotationData, args.userId) = rotationData
    /\ NoDuplicates(rotationData.skipList)
    /\ [rotationData EXCEPT !.skipList = entry.skipList] = entry

C18_Witness ==
  /\ op = "skipUser"
  /\ Includes(entry.skipList, args.userId)
  /\ Len(rotationData.rotationOrder) > 0
  /\ Len(rotationData.history) > 0

\* the ISO date of the local calendar day of the instant
LocalDate(date) == Calendar[date.day + 2]

\* C21: isNonWorkingDay compares by the local calendar date of the instant,
\* without a conversion to another zone: two instants of the same local
\* calendar date get the same answer, and the date looked up in specificDates
\* is the local date, the one whose weekday is looked up in recurringDays.
C21_LocalCalendarDate ==
  Asked =>
    /\ \A other \in Dates :
         other.day = args.date.day =>
           isNonWorkingDay(rotationData, args.userId, other) = answer
    /\ getDayOfWeek(args.date) \notin {"saturday", "sunday"} =>
         (answer <=>
            \/ Includes(SpecificDatesOf(rotationData, args.userId),
                        LocalDate(args.date))
            \/ Includes(RecurringDaysOf(rotationData, args.userId),
                        getDayOfWeek(args.date)))

\* C22: a flat array L of the older revision gets the answer the object
\* {specificDates: L, recurringDays: []} gets, for every user and date.
C22_LegacyEquivalence ==
  (Asked /\ HasEntry(rotationData, args.userId)
         /\ rotationData.nonWorkingDays[args.userId].shape = "array") =>
    answer =
      isNonWorkingDay(
        PutEntry(rotationData, args.userId,
                 StructuredEntry(rotationData.nonWorkingDays[args.userId].items,
                                 <<>>)),
        args.userId, args.date)

C22_Witness ==
  /\ Asked
  /\ HasEntry(rotationData, args.userId)
  /\ rotationData.nonWorkingDays[args.userId].shape = "array"
  /\ getDayOfWeek(args.date) = "friday"
  /\ Includes(rotationData.nonWorkingDays[args.userId].items,
              formatDate(args.date))
  /\ answer

Filtered == op = "getAvailableEngineers"

\* the calendar dates from the day of startDate to the day of endDate
DatesInclusive(startDate, endDate) ==
  [i \in 1..(IF endDate.day >= startDate.day
               THEN endDate.day - startDate.day + 1 ELSE 0) |->
     [startDate EXCEPT !.day = @ + i - 1]]

\* C23: getAvailableEngineers returns, in the order of the roster, exactly
\* the engineers for whom isNonWorkingDay is false on every calendar date
\* from the start to the end inclusive, and leaves the state as it was.
C23_AvailableOnEveryDate ==
  Filtered =>
    /\ selected =
         SelectSeq(availableEngineers,
                   LAMBDA id :
                     \A d \in Range(DatesInclusive(args.startDate, args.endDate)) :
                       ~isNonWorkingDay(rotationData, id, d))
    /\ rotationData = entry

\* C24: when startDate is later than endDate getAvailableEngineers returns
\* the whole roster unchanged, whatever the non-working days of the
\* engineers (also when both Dates are days nobody works).
C24_EmptyRange ==
  (Filtered /\ ~NotAfter(args.startDate, args.endDate)) =>
    selected = availableEngineers

C24_Witness ==
  /\ Filtered
  /\ ~NotAfter(args.startDate, args.endDate)
  /\ args.startDate.day > args.endDate.day
  /\ Len(availableEngineers) = 2
  /\ isNonWorkingDay(rotationData, "A", args.startDate)
  /\ isNonWorkingDay(rotationData, "A", args.endDate)
  /\ getDayOfWeek(args.startDate) \notin {"saturday", "sunday"}
  /\ selected = availableEngineers

EditedBy(name) == op = name

\* the weekday names and abbreviations the editors recognise, in any case
Recognised(day) == ToLowerCase(day) \in DOMAIN dayMap

Canonical(day) == dayMap[ToLowerCase(day)]

DatesAmong(days) == {d \in Range(days) : isDateFormat(d)}

WeekdaysAmong(days) == {Canonical(d) : d \in {x \in Range(days) : Recognised(x)}}

\* s is in the order of order and has no element twice or from elsewhere
InOrderOf(s, order) == s = SelectSeq(order, LAMBDA x : x \in Range(s))

\* C25: after any sequence of calls of the three editors from the default
\* state, every user's specificDates has no duplicates and is in ascending
\* lexicographic order, and every user's recurringDays has no duplicates
\* and is in the order Sunday to Saturday.
C25_SortedWithoutDuplicates ==
  \A u \in DOMAIN rotationData.nonWorkingDays :
    /\ InOrderOf(SpecificDatesOf(rotationData, u), LexOrder)
    /\ InOrderOf(RecurringDaysOf(rotationData, u), DayNames)

\* C26: addNonWorkingDays adds the entries of the YYYY-MM-DD pattern to
\* specificDates and the canonical names of the recognised weekday names to
\* recurringDays; any other entry is ignored: neither list gains anything
\* because of it.
C26_OtherEntriesIgnored ==
  EditedBy("addNonWorkingDays") =>
    /\ Range(SpecificDatesOf(rotationData, args.userId)) =
         Range(SpecificDatesOf(entry, args.userId)) \cup DatesAmong(args.value)
    /\ Range(RecurringDaysOf(rotationData, args.userId)) =
         Range(RecurringDaysOf(entry, args.userId))
           \cup WeekdaysAmong(args.value)

\* C27: addNonWorkingDays on a user whose entry is a flat array of dates
\* leaves the object with the two lists: specificDates holds the dates of
\* the array and the dates added, recurringDays only the weekdays added.
C27_LegacyConverted ==
  (EditedBy("addNonWorkingDays") /\ HasEntry(entry, args.userId)
     /\ entry.nonWorkingDays[args.userId].shape = "array") =>
    /\ rotationData.nonWorkingDays[args.userId].shape = "object"
    /\ Range(rotationData.nonWorkingDays[args.userId].specificDates) =
         Range(entry.nonWorkingDays[args.userId].items)
           \cup DatesAmong(args.value)
    /\ Range(rotationData.nonWorkingDays[args.userId].recurringDays)
         \subseteq WeekdaysAmong(args.value)

\* day is in none of the lists of the user
Absent(rd, userId, day) ==
  /\ ~Includes(SpecificDatesOf(rd, userId), day)
  /\ Recognised(day) => ~Includes(RecurringDaysOf(rd, userId), Canonical(day))

SameLists(rd1, rd2, userId) ==
  /\ SpecificDatesOf(rd1, userId) = SpecificDatesOf(rd2, userId)
  /\ RecurringDaysOf(rd1, userId) = RecurringDaysOf(rd2, userId)

\* C28: removeNonWorkingDays undoes addNonWorkingDays: in every state, for a
\* date or weekday e the user does not have, adding e and then removing e
\* gives back the user's two lists; removing entries the user does not have
\* or tokens that are not recognised changes neither list; removing for a
\* user without an entry leaves the state as it was.
C28_RemoveUndoesAdd ==
  /\ \A u \in EditorUsers, days \in EditorDays :
       (/\ Len(days) = 1
        /\ isDateFormat(days[1]) \/ Recognised(days[1])
        /\ Absent(rotationData, u, days[1])) =>
         \A rd \in addNonWorkingDays(rotationData, u, days) :
           SameLists(removeNonWorkingDays(rd, u, days), rotationData, u)
  /\ EditedBy("removeNonWorkingDays") =>
       /\ (\A i \in 1..Len(args.value) :
             \/ Absent(entry, args.userId, args.value[i])
             \/ ~(isDateFormat(args.value[i]) \/ Recognised(args.value[i])))
           => SameLists(rotationData, entry, args.userId)
       /\ ~HasEntry(entry, args.userId) => rotationData = entry

\* C29: clearNonWorkingDays without a scope removes the entry of the user;
\* with 'recurring' it empties recurringDays and keeps the dates; with
\* 'specific' it empties the dates and keeps recurringDays, so that
\* afterwards no Monday-to-Friday date is non-working for the user because
\* of a date, whether the entry was the object or a flat array; the entries
\* of the other users stay and a user without an entry changes nothing.
C29_ClearScopes ==
  EditedBy("clearNonWorkingDays") =>
    LET u == args.userId
    IN  /\ ~HasEntry(entry, u) => rotationData = entry
        /\ \A v \in EditorUsers \ {u} :
             /\ HasEntry(rotationData, v) <=> HasEntry(entry, v)
             /\ HasEntry(entry, v) =>
                  rotationData.nonWorkingDays[v] = entry.nonWorkingDays[v]
        /\ args.value = "" => ~HasEntry(rotationData, u)
        /\ args.value = "recurring" =>
             /\ RecurringDaysOf(rotationData, u) = <<>>
             /\ SpecificDatesOf(rotationData, u) = SpecificDatesOf(entry, u)
        /\ args.value = "specific" =>
             /\ SpecificDatesOf(rotationData, u) = <<>>
             /\ RecurringDaysOf(rotationData, u) = RecurringDaysOf(entry, u)
             /\ \A date \in Dates :
                  (/\ getDayOfWeek(date) \notin {"saturday", "sunday"}
                   /\ isNonWorkingDay(rotationData, u, date)) =>
                    Includes(RecurringDaysOf(rotationData, u),
                             getDayOfWeek(date))

\* C30: every invocation of an entry point writes the persisted state at
\* most once, at its end: no invocation, under way or ended, has called
\* writeFileSync twice.
C30_OneWritePerInvocation == writes <= 1

\* C39: the retry loop of force_reassign ends after at most 5 calls of
\* getNextEngineers, and after exactly one when no more than
\* engineersPerShift engineers are available; the selection of the last call
\* is the one committed.
C39_ForceLoopBounded ==
  /\ Forcing => attempts \in 1..5
  /\ op = "forceRetry" => attempts < 5
  /\ (Forcing /\ Len(availableEngineers) <= count) =>
       (op = "forceSelected" /\ attempts = 1)
  /\ (Committed /\ attempts > 0) => rotationData.currentEngineers = selected

C39_Witness ==
  /\ op = "forceSelected"
  /\ attempts = 5
  /\ arraysHaveSameElements(selected, rotationData.currentEngineers)

\* C32: a getNextEngineers call on an empty rotationOrder leaves in
\* rotationOrder a permutation of the roster passed in, and this write
\* happens at most once in the life of a state, also when the first roster
\* passed in is empty: no call or commit comes before it.
C32_BootstrapOnce ==
  [][(op' = "getNextEngineers" /\ Len(rotationData.rotationOrder) = 0) =>
       /\ SameIds(rotationData'.rotationOrder, availableEngineers')
       /\ op # "getNextEngineers"
       /\ Len(rotationData.history) = 0]_vars

\* C38: an engineer who is in every roster but was not in the roster of the
\* bootstrap, and so is not in rotationOrder, is eventually assigned when
\* the assign cycle is repeated with an empty skipList.
C38_LatecomerServes ==
  <>Includes(rotationData.currentEngineers, At(Group, Len(Group) - 1))

\* the invocation of AssignSpec has ended
Ended == op \in {"assigned", "reassigned", "notDue", "weekend", "failed"}

\* the file holds what the invocation loaded
FileAsLoaded == IF IsFile(stored) THEN stored[1] = entry ELSE stored = Corrupt

OnWeekend(date) == getDay(date) \in {0, 6}

\* C31: a file that cannot be read or parsed makes the invocation fail
\* without writing: no step of an invocation replaces such a file, and no
\* invocation that started from it ends with an assignment.
C31_LoadFailureFails ==
  [][stored = Corrupt =>
       (stored' = Corrupt /\ op' \notin {"assigned", "reassigned"})]_vars

\* the engineers of the filtered group that have no non-working days entry
Unrestricted ==
  {i \in 1..Len(args.roster) : ~HasEntry(entry, args.roster[i])}

\* C33: an assign that commits, with at least engineersPerShift engineers
\* of the status-filtered group without non-working days, commits exactly
\* engineersPerShift engineers, on every weekday.
C33_FullShift ==
  (op = "assigned" /\ Cardinality(Unrestricted) >= count) =>
    Len(rotationData.currentEngineers) = count

\* the Monday to Friday calendar days after the day of from, up to and
\* including the day of to
WeekdaysElapsed(from, to) ==
  Cardinality({d \in (from.day + 1)..to.day : (d + 1) % 7 \notin {0, 6}})

\* C34: an assign on a weekday whose announcement is delivered commits iff
\* lastRotationDate is null or daysPerRotation weekdays have elapsed since
\* its day, whatever the times of day.
C34_Cadence ==
  (/\ op \in {"assigned", "notDue"}
   /\ args.action = "assign"
   /\ ~OnWeekend(args.today)) =>
    (op = "assigned" <=>
       \/ entry.lastRotationDate = Null
       \/ WeekdaysElapsed(entry.lastRotationDate[1], args.today)
            >= daysPerRotation)

\* C35: an assign on a Saturday or Sunday announces nothing and leaves the
\* file as it loaded it, due or not.
C35_WeekendUntouched ==
  (Ended /\ args.action = "assign" /\ OnWeekend(args.today)) =>
    /\ op \in {"weekend", "notDue"}
    /\ FileAsLoaded

C35_Witness ==
  /\ op = "weekend"
  /\ OnWeekend(args.today)
  /\ IsFile(stored)
  /\ stored[1].lastRotationDate # Null
  /\ Len(stored[1].currentEngineers) > 0

\* C36: in assign and force_reassign the file is written only after the
\* announcement: an invocation whose announcement fails leaves the file as
\* it loaded it, and a file that differs from what was loaded belongs to an
\* invocation that announced.
C36_SavedAfterAnnounce ==
  /\ op = "failed" => FileAsLoaded
  /\ (Ended /\ ~FileAsLoaded) => op \in {"assigned", "reassigned"}

C36_Witness ==
  /\ op = "failed"
  /\ args.action = "force_reassign"
  /\ Len(selected) > 0
  /\ rotationData # entry
  /\ FileAsLoaded

\* the command made today or tomorrow a non-working day of its user
AffectsRotation ==
  \E d \in {args.today, [args.today EXCEPT !.day = @ + 1]} :
    /\ isNonWorkingDay(rotationData, args.userId, d)
    /\ ~isNonWorkingDay(entry, args.userId, d)

\* C37: after an add for user U support is reassigned (a selection is
\* announced, and committed when the announcement is delivered) only if U is
\* on support and the add made today or tomorrow a non-working day of U; any
\* other add leaves currentEngineers, history and lastRotationDate alone.
C37_ReassignOnlyWhenAffected ==
  [][(op = "saved" /\ (op' = "failed"
                        \/ rotationData'.history # rotationData.history
                        \/ rotationData'.currentEngineers
                             # rotationData.currentEngineers
                        \/ rotationData'.lastRotationDate
                             # rotationData.lastRotationDate)) =>
       (Includes(entry.currentEngineers, args.userId) /\ AffectsRotation)]_vars

====
